---- MODULE Spec2Model ----
(***************************************************************************)
(* Model of rsc: the tree-walking evaluator (src/src/computer.rs,          *)
(* Computer::compute / compute_expr) and the tokenizer (src/src/lexer.rs,  *)
(* tokenize).                                                              *)
(*                                                                         *)
(* The numeric type T of Computer<T> is instantiated with exact rationals  *)
(* <<numerator, denominator>> in lowest terms with a positive denominator. *)
(* compute_expr is modelled in small steps: `ctrl` is the call stack of    *)
(* compute_expr activations, `vals` the values its finished callees        *)
(* returned.                                                               *)
(***************************************************************************)
EXTENDS Integers, Sequences, FiniteSets, TLC

VARIABLES variables, pc, ctrl, vals, val, result,
          calls, cur, preVars, assigned, lastBound, lastOk, errDepth,
          piSeed, eSeed,
          input, li, tokens, lexres, lpc

evalVars == <<variables, pc, ctrl, vals, val, result,
              calls, cur, preVars, assigned, lastBound, lastOk, errDepth,
              piSeed, eSeed>>
lexVars == <<input, li, tokens, lexres, lpc>>
vars == <<variables, pc, ctrl, vals, val, result,
          calls, cur, preVars, assigned, lastBound, lastOk, errDepth,
          piSeed, eSeed, input, li, tokens, lexres, lpc>>

(***************************************************************************)
(* Bounds                                                                  *)
(***************************************************************************)
\* number of compute calls made on one Computer
MaxCalls == 2
\* largest integer operand handed to a Factorial node in SpecFact
MaxFact == 6
\* longest input text handed to tokenize
MaxLen == 3

(***************************************************************************)
(* The numeric capability (trait Num and the std::ops bounds)              *)
(***************************************************************************)
AbsInt(x) == IF x < 0 THEN -x ELSE x

RECURSIVE Gcd(_, _)
Gcd(a, b) == IF b = 0 THEN a ELSE Gcd(b, a % b)

\* the rational n/d (d # 0) in lowest terms with a positive denominator
Norm(n, d) ==
    LET g == Gcd(AbsInt(n), AbsInt(d))
        s == IF d < 0 THEN -1 ELSE 1
    IN  <<(s * n) \div g, AbsInt(d) \div g>>

Whole(n) == <<n, 1>>
Zero == Whole(0)
One == Whole(1)

IsInteger(a) == a[2] = 1
LessT(a, b) == a[1] * b[2] < b[1] * a[2]
NegT(a) == <<-a[1], a[2]>>
AddT(a, b) == Norm(a[1] * b[2] + b[1] * a[2], a[2] * b[2])
SubT(a, b) == Norm(a[1] * b[2] - b[1] * a[2], a[2] * b[2])
MulT(a, b) == Norm(a[1] * b[1], a[2] * b[2])
\* division by zero is left to the numeric type; no input below divides by zero
DivT(a, b) == Norm(a[1] * b[2], a[2] * b[1])
AbsT(a) == <<AbsInt(a[1]), a[2]>>

\* power with a non-negative integer exponent (the only exponents the inputs produce)
RECURSIVE PowNat(_, _)
PowNat(a, n) == IF n = 0 THEN One ELSE MulT(a, PowNat(a, n - 1))
PowT(a, b) == CASE IsInteger(b) /\ b[1] >= 0 -> PowNat(a, b[1])

(***************************************************************************)
(* Expr: the AST.  Every node has the same record shape.                   *)
(***************************************************************************)
Const(q) == [k |-> "Constant", tag |-> "", num |-> q, kids |-> <<>>]
Ident(id) == [k |-> "Identifier", tag |-> id, num |-> Zero, kids |-> <<>>]
NegE(x) == [k |-> "Neg", tag |-> "", num |-> Zero, kids |-> <<x>>]
BinOp(op, l, r) == [k |-> "BinOp", tag |-> op, num |-> Zero, kids |-> <<l, r>>]
Func(f, x) == [k |-> "Function", tag |-> f, num |-> Zero, kids |-> <<x>>]
Assign(id, x) == [k |-> "Assignment", tag |-> id, num |-> Zero, kids |-> <<x>>]
PowE(l, r) == [k |-> "Pow", tag |-> "", num |-> Zero, kids |-> <<l, r>>]
Fact(x) == [k |-> "Factorial", tag |-> "", num |-> Zero, kids |-> <<x>>]

Names == {"pi", "e", "ans", "a", "z"}
BinOps == {"Plus", "Minus", "Star", "Slash"}

\* the ASTs handed to compute
ExprSet ==
    {Ident(n) : n \in Names}
    \cup {Assign(n, Const(Whole(c))) : n \in {"pi", "ans", "a"}, c \in {2, 3}}
    \cup {Assign("pi", Assign("a", Const(Whole(3)))),
          Assign("e", Ident("z")),
          Assign("a", Ident("z"))}
    \cup {BinOp(op, Assign("a", Const(Whole(3))), Ident("a")) : op \in BinOps}
    \cup {BinOp(op, Ident("a"), Assign("a", Const(Whole(3)))) : op \in BinOps}
    \cup {PowE(Assign("a", Const(Whole(2))), Ident("a")),
          PowE(Ident("a"), Assign("a", Const(Whole(2))))}
    \cup {BinOp("Plus", Const(Whole(3)), Const(Whole(4))),
          BinOp("Star", Ident("ans"), Const(Whole(2))),
          BinOp("Plus", Assign("ans", Const(Whole(5))), Ident("z")),
          BinOp("Plus", Assign("ans", Const(Whole(5))), Ident("ans")),
          BinOp("Plus", Assign("a", Const(Whole(1))), Fact(NegE(Const(Whole(1)))))}
    \cup {NegE(Ident("a")),
          Func("Abs", NegE(Const(Whole(2)))),
          Fact(Ident("a")),
          Fact(Const(Norm(3, 2)))}

\* operands of the Factorial nodes of SpecFact: -2, -3/2, ..., MaxFact
FactInputs == {Norm(h, 2) : h \in -4 .. 2 * MaxFact}
FactExprs == {Fact(Const(q)) : q \in FactInputs}

(***************************************************************************)
(* Results and the variable map                                            *)
(***************************************************************************)
Ok(v) == [ok |-> TRUE, num |-> v, err |-> <<"", "">>]
Err(kind, id) == [ok |-> FALSE, num |-> Zero, err |-> <<kind, id>>]
NoResult == Err("None", "")

\* HashMap::insert
Insert(map, id, b) == [n \in DOMAIN map \cup {id} |-> IF n = id THEN b ELSE map[n]]

\* Computer::new
NewVariables(pi_val, e_val) ==
    Insert(Insert(<<>>, "pi", <<pi_val, TRUE>>), "e", <<e_val, TRUE>>)

\* Expr::Identifier: self.variables.get(id)
LookupSkipsAns(map, id) ==
    IF id \in DOMAIN map /\ id # "ans" THEN Ok(map[id][1])
    ELSE Err("UnrecognizedIdentifier", id)
Lookup(map, id) ==
    IF id \in DOMAIN map THEN Ok(map[id][1])
    ELSE Err("UnrecognizedIdentifier", id)

\* Expr::Assignment: contains_key(id) and get(id).unwrap().1 == true
IsConstantNever(map, id) == FALSE
IsConstant(map, id) == id \in DOMAIN map /\ map[id][2] = TRUE

\* Expr::Assignment: the binding inserted
AssignBindingConst(value) == <<value, TRUE>>
AssignBinding(value) == <<value, FALSE>>

\* Expr::Assignment: the map after the node, given the value of its right-hand side
AssignmentWriteFirst(map, id, value) == Insert(map, id, AssignBinding(value))
AssignmentEffect(map, id, value) ==
    IF IsConstant(map, id) THEN map
    ELSE Insert(map, id, AssignBinding(value))

\* Computer::compute: the match on the root's result
AfterComputeAlways(map, res) == Insert(map, "ans", <<res.num, TRUE>>)
AfterCompute(map, res) ==
    IF res.ok THEN Insert(map, "ans", <<res.num, TRUE>>) ELSE map

\* Expr::BinOp: the match on op
BinOpT(op, lnum, rnum) ==
    CASE op = "Plus" -> AddT(lnum, rnum)
      [] op = "Minus" -> SubT(lnum, rnum)
      [] op = "Star" -> MulT(lnum, rnum)
      [] op = "Slash" -> DivT(lnum, rnum)

\* Expr::Function: only Abs is computable over the rationals
FuncT(f, num) == CASE f = "Abs" -> AbsT(num)

\* Expr::Factorial: the first factor
FactorInitSame(value) == value
FactorInit(value) == SubT(value, One)

\* the operand compute_expr evaluates as its (i+1)-th recursive call
ChildAtRightFirst(e, i) == e.kids[Len(e.kids) - i]
ChildAt(e, i) == e.kids[i + 1]

(***************************************************************************)
(* The evaluator                                                           *)
(***************************************************************************)
Frame(e) == [e |-> e, i |-> 0, value |-> Zero, factor |-> Zero]
Top == ctrl[Len(ctrl)]
Pop(s) == SubSeq(s, 1, Len(s) - 1)
Running == pc = "running" /\ ctrl # <<>>

\* Result<Vec<Token>, LexerError>
LexOk(toks) == [ok |-> TRUE, tokens |-> toks, err |-> <<"", <<>>>>]
LexErr(kind, text) == [ok |-> FALSE, tokens |-> <<>>, err |-> <<kind, text>>]
LexNone == LexErr("None", <<>>)

LexIdle ==
    /\ input = <<>>
    /\ li = 0
    /\ tokens = <<>>
    /\ lexres = LexNone
    /\ lpc = "idle"

EvalInit ==
    /\ piSeed \in {Whole(3), Norm(22, 7)}
    /\ eSeed \in {Whole(2), Norm(19, 7)}
    /\ variables = NewVariables(piSeed, eSeed)
    /\ pc = "idle"
    /\ ctrl = <<>>
    /\ vals = <<>>
    /\ val = NoResult
    /\ result = NoResult
    /\ calls = 0
    /\ cur = Const(Zero)
    /\ preVars = variables
    /\ assigned = {}
    /\ lastBound = [n \in {"pi", "e"} |-> variables[n][1]]
    /\ lastOk = [has |-> FALSE, num |-> Zero]
    /\ errDepth = 0

Init == EvalInit /\ LexIdle

\* a caller invokes compute(&ast)
Call(ast) ==
    /\ pc = "idle"
    /\ calls < MaxCalls
    /\ pc' = "running"
    /\ calls' = calls + 1
    /\ cur' = ast
    /\ ctrl' = <<Frame(ast)>>
    /\ vals' = <<>>
    /\ val' = NoResult
    /\ preVars' = variables
    /\ assigned' = {}
    /\ errDepth' = 0
    /\ UNCHANGED <<variables, result, lastBound, lastOk, piSeed, eSeed>>
    /\ UNCHANGED lexVars

Compute == \E ast \in ExprSet : Call(ast)

ComputeFact == \E ast \in FactExprs : Call(ast)

\* self.compute_expr(child): a recursive call
Descend ==
    /\ ctrl' = Append([ctrl EXCEPT ![Len(ctrl)].i = @ + 1], Frame(ChildAt(Top.e, Top.i)))
    /\ UNCHANGED <<vals, val, errDepth>>

\* the activation returns Ok(v), having consumed n values of its callees
ReturnOk(n, v) ==
    /\ ctrl' = Pop(ctrl)
    /\ vals' = Append(SubSeq(vals, 1, Len(vals) - n), v)
    /\ val' = IF Len(ctrl) = 1 THEN Ok(v) ELSE val
    /\ UNCHANGED errDepth

\* the activation returns Err, which every caller's `?` hands on to compute
ReturnErr(kind, id) ==
    /\ ctrl' = <<>>
    /\ vals' = <<>>
    /\ val' = Err(kind, id)
    /\ errDepth' = Len(ctrl)

NoWrite == UNCHANGED <<variables, assigned, lastBound>>
StepFrame == UNCHANGED <<pc, result, calls, cur, preVars, lastOk, piSeed, eSeed>>
                /\ UNCHANGED lexVars

StepConstant ==
    /\ Running
    /\ Top.e.k = "Constant"
    /\ ReturnOk(0, Top.e.num)
    /\ NoWrite
    /\ StepFrame

StepIdentifier ==
    /\ Running
    /\ Top.e.k = "Identifier"
    /\ LET r == Lookup(variables, Top.e.tag)
       IN  IF r.ok THEN ReturnOk(0, r.num)
           ELSE ReturnErr(r.err[1], r.err[2])
    /\ NoWrite
    /\ StepFrame

StepNeg ==
    /\ Running
    /\ Top.e.k = "Neg"
    /\ IF Top.i = 0 THEN Descend
       ELSE ReturnOk(1, NegT(vals[Len(vals)]))
    /\ NoWrite
    /\ StepFrame

StepBinOp ==
    /\ Running
    /\ Top.e.k = "BinOp"
    /\ IF Top.i < 2 THEN Descend
       ELSE ReturnOk(2, BinOpT(Top.e.tag, vals[Len(vals) - 1], vals[Len(vals)]))
    /\ NoWrite
    /\ StepFrame

StepFunction ==
    /\ Running
    /\ Top.e.k = "Function"
    /\ IF Top.i = 0 THEN Descend
       ELSE ReturnOk(1, FuncT(Top.e.tag, vals[Len(vals)]))
    /\ NoWrite
    /\ StepFrame

StepAssignment ==
    /\ Running
    /\ Top.e.k = "Assignment"
    /\ IF Top.i = 0 THEN Descend /\ NoWrite
       ELSE LET id == Top.e.tag
                value == vals[Len(vals)]
            IN  /\ variables' = AssignmentEffect(variables, id, value)
                /\ IF IsConstant(variables, id)
                   THEN /\ ReturnErr("VariableIsConstant", id)
                        /\ UNCHANGED <<assigned, lastBound>>
                   ELSE /\ ReturnOk(1, value)
                        /\ assigned' = assigned \cup {id}
                        /\ lastBound' = Insert(lastBound, id, value)
    /\ StepFrame

StepPow ==
    /\ Running
    /\ Top.e.k = "Pow"
    /\ IF Top.i < 2 THEN Descend
       ELSE ReturnOk(2, PowT(vals[Len(vals) - 1], vals[Len(vals)]))
    /\ NoWrite
    /\ StepFrame

StepFactorial ==
    /\ Running
    /\ Top.e.k = "Factorial"
    /\ IF Top.i = 0 THEN Descend
       ELSE IF Top.i = 1
       THEN LET value == vals[Len(vals)]
            IN  IF LessT(value, Zero) \/ ~IsInteger(value)
                THEN ReturnErr("InvalidFactorial", "")
                ELSE IF value = Zero \/ value = One
                THEN ReturnOk(1, One)
                ELSE /\ ctrl' = [ctrl EXCEPT ![Len(ctrl)] =
                                    [@ EXCEPT !.i = 2, !.value = value,
                                              !.factor = FactorInit(value)]]
                     /\ UNCHANGED <<vals, val, errDepth>>
       ELSE IF LessT(One, Top.factor)
            THEN /\ ctrl' = [ctrl EXCEPT ![Len(ctrl)] =
                                [@ EXCEPT !.value = MulT(Top.value, Top.factor),
                                          !.factor = SubT(Top.factor, One)]]
                 /\ UNCHANGED <<vals, val, errDepth>>
            ELSE ReturnOk(1, Top.value)
    /\ NoWrite
    /\ StepFrame

\* compute: compute_expr has returned val
ComputeReturn ==
    /\ pc = "running"
    /\ ctrl = <<>>
    /\ variables' = AfterCompute(variables, val)
    /\ result' = val
    /\ pc' = "idle"
    /\ lastBound' = IF val.ok THEN Insert(lastBound, "ans", val.num) ELSE lastBound
    /\ lastOk' = IF val.ok THEN [has |-> TRUE, num |-> val.num] ELSE lastOk
    /\ UNCHANGED <<ctrl, vals, val, calls, cur, preVars, assigned, errDepth, piSeed, eSeed>>
    /\ UNCHANGED lexVars

Next ==
    \/ Compute
    \/ StepConstant
    \/ StepIdentifier
    \/ StepNeg
    \/ StepBinOp
    \/ StepFunction
    \/ StepAssignment
    \/ StepPow
    \/ StepFactorial
    \/ ComputeReturn

Spec == Init /\ [][Next]_vars

NextFact ==
    \/ ComputeFact
    \/ StepConstant
    \/ StepFactorial
    \/ ComputeReturn

SpecFact == Init /\ [][NextFact]_vars /\ WF_vars(NextFact)

(***************************************************************************)
(* The tokenizer                                                           *)
(***************************************************************************)
\* the characters of the input texts: digits, '.', three of the operator
\* characters, a whitespace character and a character tokenize rejects
Alphabet == {"1", "2", ".", "+", "(", ")", " ", "x"}
Inputs == UNION {[1 .. n -> Alphabet] : n \in 0 .. MaxLen}

\* the operator arms of the match on chars[i]
OperatorOf(c) ==
    CASE c = "+" -> "Plus"
      [] c = "-" -> "Minus"
      [] c = "*" -> "Star"
      [] c = "/" -> "Slash"
      [] c = "^" -> "Caret"
      [] c = "(" -> "LParen"
      [] c = ")" -> "RParen"
      [] OTHER -> ""
IsOperatorChar(c) == OperatorOf(c) # ""
\* char::is_whitespace
IsWhitespace(c) == c \in {" ", "\t", "\n", "\r"}
\* char::is_digit(10)
DigitValue(c) ==
    CASE c = "0" -> 0 [] c = "1" -> 1 [] c = "2" -> 2 [] c = "3" -> 3
      [] c = "4" -> 4 [] c = "5" -> 5 [] c = "6" -> 6 [] c = "7" -> 7
      [] c = "8" -> 8 [] c = "9" -> 9 [] OTHER -> -1
IsDigit(c) == DigitValue(c) >= 0
IsNumberChar(c) == IsDigit(c) \/ c = "."

OperatorToken(op) == [t |-> "Operator", op |-> op, num |-> Zero]
NumberToken(q) == [t |-> "Number", op |-> "", num |-> q]

\* the index one past the run of digits and '.' that starts at chars[i] (0-based)
RECURSIVE NumberEnd(_, _)
NumberEnd(chars, i) ==
    IF i < Len(chars) /\ IsNumberChar(chars[i + 1]) THEN NumberEnd(chars, i + 1)
    ELSE i

RECURSIVE DigitsValue(_)
DigitsValue(s) ==
    IF s = <<>> THEN 0
    ELSE 10 * DigitsValue(SubSeq(s, 1, Len(s) - 1)) + DigitValue(s[Len(s)])

RECURSIVE Pow10(_)
Pow10(n) == IF n = 0 THEN 1 ELSE 10 * Pow10(n - 1)

\* number_string.parse::<f64>() on a string of digits and '.': the decimal
\* value, or a failure without a digit or with more than one '.'
ParseNumber(s) ==
    LET dots == {j \in 1 .. Len(s) : s[j] = "."}
        digits == SelectSeq(s, IsDigit)
    IN  IF Cardinality(dots) > 1 \/ digits = <<>> THEN [ok |-> FALSE, num |-> Zero]
        ELSE IF dots = {} THEN [ok |-> TRUE, num |-> Norm(DigitsValue(digits), 1)]
        ELSE LET d == CHOOSE j \in dots : TRUE
             IN  [ok |-> TRUE, num |-> Norm(DigitsValue(digits), Pow10(Len(s) - d))]

\* a caller invokes tokenize(text)
Tokenize ==
    /\ lpc = "idle"
    /\ \E text \in Inputs : input' = text
    /\ li' = 0
    /\ tokens' = <<>>
    /\ lpc' = "scan"
    /\ UNCHANGED lexres
    /\ UNCHANGED evalVars

Scanning == lpc = "scan" /\ li < Len(input)

\* '+' | '-' | '*' | '/' | '^' | '(' | ')'
LexOperator ==
    /\ Scanning
    /\ IsOperatorChar(input[li + 1])
    /\ tokens' = Append(tokens, OperatorToken(OperatorOf(input[li + 1])))
    /\ li' = li + 1
    /\ UNCHANGED <<input, lexres, lpc>>
    /\ UNCHANGED evalVars

\* c.is_whitespace(): break leaves the while loop, Ok(tokens) follows
LexWhitespace ==
    /\ Scanning
    /\ ~IsOperatorChar(input[li + 1])
    /\ IsWhitespace(input[li + 1])
    /\ lexres' = LexOk(tokens)
    /\ lpc' = "done"
    /\ UNCHANGED <<input, li, tokens>>
    /\ UNCHANGED evalVars

\* c.is_digit(10) || c == '.'
LexNumber ==
    /\ Scanning
    /\ ~IsOperatorChar(input[li + 1])
    /\ ~IsWhitespace(input[li + 1])
    /\ IsNumberChar(input[li + 1])
    /\ LET end == NumberEnd(input, li + 1)
           number_string == SubSeq(input, li + 1, end)
           number == ParseNumber(number_string)
       IN  IF ~number.ok
           THEN /\ lexres' = LexErr("InvalidNumber", number_string)
                /\ lpc' = "done"
                /\ li' = end
                /\ UNCHANGED tokens
           ELSE /\ tokens' = Append(tokens, NumberToken(number.num))
                /\ li' = end
                /\ UNCHANGED <<lexres, lpc>>
    /\ UNCHANGED input
    /\ UNCHANGED evalVars

\* any other character
LexInvalid ==
    /\ Scanning
    /\ ~IsOperatorChar(input[li + 1])
    /\ ~IsWhitespace(input[li + 1])
    /\ ~IsNumberChar(input[li + 1])
    /\ lexres' = LexErr("InvalidCharacter", <<input[li + 1]>>)
    /\ lpc' = "done"
    /\ UNCHANGED <<input, li, tokens>>
    /\ UNCHANGED evalVars

\* i == chars.len(): the while loop ends, Ok(tokens)
LexEnd ==
    /\ lpc = "scan"
    /\ li >= Len(input)
    /\ lexres' = LexOk(tokens)
    /\ lpc' = "done"
    /\ UNCHANGED <<input, li, tokens>>
    /\ UNCHANGED evalVars

NextLex ==
    \/ Tokenize
    \/ LexOperator
    \/ LexWhitespace
    \/ LexNumber
    \/ LexInvalid
    \/ LexEnd

SpecLex == Init /\ [][NextLex]_vars

(***************************************************************************)
(* Properties                                                              *)
(***************************************************************************)
BoundConstant(map, id) == id \in DOMAIN map /\ map[id][2] = TRUE
AtAssignmentCommit == Running /\ Top.e.k = "Assignment" /\ Top.i = 1
Returned == pc = "idle" /\ calls > 0

\* C1: after any sequence of compute calls "pi" is still bound to (p, constant)
\* and "e" to (e0, constant), p and e0 being the values given to Computer::new.
C1_SeedsPermanent ==
    /\ "pi" \in DOMAIN variables
    /\ variables["pi"] = <<piSeed, TRUE>>
    /\ "e" \in DOMAIN variables
    /\ variables["e"] = <<eSeed, TRUE>>

C1_Witness ==
    /\ Returned
    /\ cur = Assign("pi", Const(Whole(2)))
    /\ result = Err("VariableIsConstant", "pi")

\* C2 as stated: when the root Assignment(name, rhs) fails with
\* VariableIsConstant(name) after rhs evaluated successfully, the environment
\* equals the environment before the Assignment node started evaluating.
C2_NothingMutatedSinceNodeStart ==
    (/\ Returned
     /\ cur.k = "Assignment"
     /\ errDepth = 1
     /\ result = Err("VariableIsConstant", cur.tag))
        => variables = preVars

\* C2 amended: when the right-hand side of Assignment(name, rhs) has evaluated
\* and name is bound and constant, the node fails with VariableIsConstant(name)
\* and the environment stays as it was when rhs finished evaluating.
C2_ConstantCheckMutatesNothing ==
    [][(AtAssignmentCommit /\ BoundConstant(variables, Top.e.tag))
          => /\ variables' = variables
             /\ val' = Err("VariableIsConstant", Top.e.tag)
             /\ ctrl' = <<>>]_vars

C2_Witness ==
    /\ Returned
    /\ cur = Assign("pi", Assign("a", Const(Whole(3))))
    /\ errDepth = 1
    /\ result = Err("VariableIsConstant", "pi")
    /\ "a" \notin DOMAIN preVars
    /\ variables = Insert(preVars, "a", <<Whole(3), FALSE>>)

\* C3: in every reachable environment, also in the middle of an evaluation and
\* after a failed call, "ans" is never bound with the non-constant flag.
C3_AnsNeverNonConstant ==
    "ans" \in DOMAIN variables => variables["ans"][2] = TRUE

\* C4: "ans" is written only when a root call returns Ok: in every state,
\* also while an expression is being evaluated, "ans" is bound exactly when
\* some root call has succeeded, and then to (result of the latest successful
\* root call, constant), which is what Identifier("ans") reads.
C4_AnsIsLatestRootResult ==
    IF lastOk.has
    THEN "ans" \in DOMAIN variables /\ variables["ans"] = <<lastOk.num, TRUE>>
    ELSE "ans" \notin DOMAIN variables

\* C5: after a compute call that returned an error, every binding that was not
\* written by a completed Assignment of that call has its pre-call value and
\* flag, no binding is removed, every new binding was written by a completed
\* Assignment, and no activation is left behind.
C5_FailedCallFrame ==
    (Returned /\ ~result.ok) =>
        /\ \A n \in DOMAIN preVars :
              /\ n \in DOMAIN variables
              /\ n \notin assigned => variables[n] = preVars[n]
        /\ \A n \in DOMAIN variables \ DOMAIN preVars : n \in assigned
        /\ ctrl = <<>>
        /\ vals = <<>>

C5_Witness ==
    /\ Returned
    /\ result = Err("InvalidFactorial", "")
    /\ assigned = {"a"}
    /\ "ans" \in DOMAIN preVars
    /\ variables # preVars

\* C6: evaluating Identifier(name) changes no binding and returns the value most
\* recently bound to name (seed, committed Assignment or automatic "ans"
\* write) if name was ever bound, and fails with UnrecognizedIdentifier(name)
\* otherwise; a root call compute(Identifier(name)) changes nothing but "ans".
C6_IdentifierLookup ==
    [][/\ (Running /\ Top.e.k = "Identifier") =>
             /\ variables' = variables
             /\ IF Top.e.tag \in DOMAIN lastBound
                THEN /\ vals' = Append(vals, lastBound[Top.e.tag])
                     /\ ctrl' = Pop(ctrl)
                ELSE /\ val' = Err("UnrecognizedIdentifier", Top.e.tag)
                     /\ ctrl' = <<>>
       /\ (pc = "running" /\ pc' = "idle" /\ cur.k = "Identifier") =>
             /\ DOMAIN variables' \ {"ans"} = DOMAIN preVars \ {"ans"}
             /\ \A n \in DOMAIN preVars \ {"ans"} : variables'[n] = preVars[n]
             /\ result'.ok = (cur.tag \in DOMAIN lastBound)]_vars

C6_Witness ==
    /\ Returned
    /\ cur = Ident("a")
    /\ preVars["pi"] = <<piSeed, TRUE>>
    /\ "a" \in DOMAIN preVars
    /\ result = Ok(preVars["a"][1])
    /\ variables["ans"] = <<preVars["a"][1], TRUE>>

\* C7: when the right-hand side of Assignment(name, rhs) has evaluated to v and
\* name is absent or bound non-constant, the node succeeds, returns v and
\* leaves name bound to (v, non-constant), all other bindings untouched.
C7_UserVariablesMutable ==
    [][(AtAssignmentCommit /\ ~BoundConstant(variables, Top.e.tag)) =>
          LET v == vals[Len(vals)]
          IN  /\ variables' = Insert(variables, Top.e.tag, <<v, FALSE>>)
              /\ vals' = vals
              /\ ctrl' = Pop(ctrl)
              /\ pc' = "running"
              /\ Len(ctrl) = 1 => val' = Ok(v)]_vars

C7_Witness ==
    /\ Returned
    /\ cur = Assign("a", Const(Whole(3)))
    /\ "a" \in DOMAIN preVars
    /\ preVars["a"] = <<Whole(2), FALSE>>
    /\ result = Ok(Whole(3))
    /\ variables["a"] = <<Whole(3), FALSE>>

RECURSIVE MathFactorial(_)
MathFactorial(n) == IF n = 0 THEN 1 ELSE n * MathFactorial(n - 1)

C8_FactorialResult ==
    (Returned /\ cur.k = "Factorial" /\ cur.kids[1].k = "Constant") =>
        LET n == cur.kids[1].num
        IN  IF n[1] < 0 \/ n[2] # 1
            THEN result = Err("InvalidFactorial", "")
            ELSE result = Ok(Whole(MathFactorial(n[1])))

\* C8: Factorial of n fails with InvalidFactorial if n is negative or not an
\* integer and otherwise returns the mathematical factorial n!, and every
\* evaluation of it ends.
C8_Factorial ==
    /\ []C8_FactorialResult
    /\ (pc = "running") ~> (pc = "idle")

C8_Witness ==
    /\ Returned
    /\ cur = Fact(Const(Whole(5)))
    /\ result = Ok(Whole(120))

IsOperatorToken(t) == t.t = "Operator"
IsNumberToken(t) == t.t = "Number"
\* the positions of the input where a numeric literal starts
LiteralStarts(text) ==
    {j \in 1 .. Len(text) :
        IsNumberChar(text[j]) /\ (j = 1 \/ ~IsNumberChar(text[j - 1]))}

\* C9: when tokenize returns Ok, its tokens hold, in order, the token of every
\* operator character of the whole input and one Number per numeric literal
\* of the whole input, and the input has no invalid character (whitespace is
\* skipped and hides nothing that follows it).
C9_WhitespaceSkipped ==
    (lpc = "done" /\ lexres.ok) =>
        LET ops == SelectSeq(input, IsOperatorChar)
            optoks == SelectSeq(lexres.tokens, IsOperatorToken)
        IN  /\ \A j \in 1 .. Len(input) :
                  IsOperatorChar(input[j]) \/ IsWhitespace(input[j]) \/ IsNumberChar(input[j])
            /\ Len(optoks) = Len(ops)
            /\ \A j \in 1 .. Len(ops) : optoks[j].op = OperatorOf(ops[j])
            /\ Len(SelectSeq(lexres.tokens, IsNumberToken)) = Cardinality(LiteralStarts(input))

Apply(e, lnum, rnum) ==
    IF e.k = "Pow" THEN PowT(lnum, rnum) ELSE BinOpT(e.tag, lnum, rnum)

\* C10: in BinOp(op, l, r) and Pow(l, r) the left operand is evaluated, its
\* Assignments written, before the right operand: with l = Assignment(x, c)
\* and r = Identifier(x) the read sees c; with l = Identifier(x) and
\* r = Assignment(x, c) the read sees the binding x had before the call.
C10_LeftToRight ==
    (Returned /\ cur.k \in {"BinOp", "Pow"}) =>
        LET l == cur.kids[1]
            r == cur.kids[2]
        IN  /\ (/\ l.k = "Assignment"
                /\ l.kids[1].k = "Constant"
                /\ r = Ident(l.tag)
                /\ ~BoundConstant(preVars, l.tag))
                  => /\ result = Ok(Apply(cur, l.kids[1].num, l.kids[1].num))
                     /\ l.tag # "ans" => variables[l.tag] = <<l.kids[1].num, FALSE>>
            /\ (/\ l.k = "Identifier"
                /\ r.k = "Assignment"
                /\ r.tag = l.tag
                /\ r.kids[1].k = "Constant")
                  => IF l.tag \notin DOMAIN preVars
                     THEN result = Err("UnrecognizedIdentifier", l.tag)
                     ELSE IF preVars[l.tag][2]
                     THEN result = Err("VariableIsConstant", l.tag)
                     ELSE result = Ok(Apply(cur, preVars[l.tag][1], r.kids[1].num))

C10_Witness ==
    /\ Returned
    /\ cur = BinOp("Minus", Assign("a", Const(Whole(3))), Ident("a"))
    /\ "a" \in DOMAIN preVars
    /\ preVars["a"] = <<Whole(2), FALSE>>
    /\ result = Ok(Zero)

====
